---- MODULE Spec2Model ----
(***************************************************************************)
(* Model of the ISPConfig Terraform provider: the session client           *)
(* (Client.Login / Logout / getSessionID / makeRequest and the entity      *)
(* calls built on them) shared by concurrent callers, and the resource     *)
(* handlers (Create / Read / Update / Delete) that drive it.               *)
(***************************************************************************)
EXTENDS Integers, Sequences, FiniteSets, TLC

\* ------------------------------------------------------------------------
\* Bounds of the model
\* ------------------------------------------------------------------------
NumThreads == 2

MaxEntities == 1

\* The longest document root an Update is followed to (a failed Update can
\* add root_subdir to the path once more each time).
MaxDocRoot == 6

\* The longest string given to the flexible decoder.
MaxDigits == 2

Threads == 1..NumThreads

\* ------------------------------------------------------------------------
\* JSON values seen on the wire.  A JSON string is a sequence of characters.
\* ------------------------------------------------------------------------
\* The zero value of the WebDomain struct, and the fields of it the handlers
\* read back: server_id, document_root, server_php_id, php.
ZeroDomain == [server_id |-> 0, document_root |-> <<>>, server_php_id |-> 0, php |-> ""]

JNum(n) == [t |-> "number", n |-> n, s |-> <<>>, o |-> ZeroDomain]
JStr(s) == [t |-> "string", n |-> 0, s |-> s, o |-> ZeroDomain]
JBool(b) == [t |-> "bool", n |-> IF b THEN 1 ELSE 0, s |-> <<>>, o |-> ZeroDomain]
JObj(d) == [t |-> "object", n |-> 0, s |-> <<>>, o |-> d]
JNull == [t |-> "null", n |-> 0, s |-> <<>>, o |-> ZeroDomain]
JArr == [t |-> "array", n |-> 0, s |-> <<>>, o |-> ZeroDomain]

\* The empty Go string, the zero value of Client.sessionID.
EmptyString == <<>>

\* Payloads the server puts in the "response" member of the envelope.
SampleDomain == [server_id |-> 1, document_root |-> <<"/", "w">>, server_php_id |-> 0, php |-> ""]

Envelope(c, m, r) == [code |-> c, message |-> m, response |-> r]

\* The generic envelope {code, message, response} (APIResponse /
\* LoginResponse): one of each shape the client tells apart -- success with
\* a string (numeric or not), a number, an object or false as payload, with
\* or without a message, and a failure code with its message.
Envelopes ==
    {Envelope("ok", "", JStr(<<"1">>)),
     Envelope("ok", "", JStr(<<"x">>)),
     Envelope("ok", "", JNum(1)),
     Envelope("ok", "", JObj(SampleDomain)),
     Envelope("ok", "denied", JBool(FALSE)),
     Envelope("error", "denied", JBool(FALSE))}

\* A body that is not JSON at all.
Garbage == Envelope("", "", JStr(<<"<", "h", ">">>))

NoBody == Envelope("", "", JBool(FALSE))

\* HTTP exchanges as seen by httpClient.Do: a network failure (net FALSE),
\* or a status line with a body that is JSON (json TRUE) or not.
Http(n, st, j, b) == [net |-> n, status |-> st, json |-> j, body |-> b]

HttpReplies ==
    {Http(FALSE, 0, FALSE, NoBody)}
    \cup {Http(TRUE, 200, TRUE, e) : e \in Envelopes}
    \cup {Http(TRUE, 200, FALSE, Garbage)}
    \cup {Http(TRUE, 500, TRUE, Envelope("error", "denied", JBool(FALSE)))}

\* ------------------------------------------------------------------------
\* Errors.  kind "" is nil; msg is the server-provided text that the error
\* string carries (the envelope's message, or the message inside a body
\* that is quoted whole).
\* ------------------------------------------------------------------------
Nil == [kind |-> "", msg |-> ""]

Err(k, m) == [kind |-> k, msg |-> m]

\* A transport layer that accepts every 2xx status.
makeRequest_Any2xx(h) ==
    IF ~h.net THEN [err |-> Err("request failed", ""), result |-> NoBody]
    ELSE IF h.status \notin 200..299
         THEN [err |-> Err("unexpected status code", h.body.message), result |-> NoBody]
    ELSE IF ~h.json
         THEN [err |-> Err("failed to parse response", h.body.message), result |-> NoBody]
    ELSE [err |-> Nil, result |-> h.body]

\* Client.makeRequest: one POST, no retry.  Returns the error and the
\* decoded envelope (left at its zero value when an error is returned).
makeRequest(h) ==
    IF ~h.net THEN [err |-> Err("request failed", ""), result |-> NoBody]
    ELSE IF h.status # 200
         THEN [err |-> Err("unexpected status code", h.body.message), result |-> NoBody]
    ELSE IF ~h.json
         THEN [err |-> Err("failed to parse response", h.body.message), result |-> NoBody]
    ELSE [err |-> Nil, result |-> h.body]

\* Login without the type assertion on the payload: whatever came with
\* code "ok" is formatted and stored.
LoginResult_NoTypeAssertion(mr) ==
    IF mr.err # Nil THEN [err |-> Err("login failed", mr.err.msg), store |-> FALSE, sessionID |-> EmptyString]
    ELSE IF mr.result.code # "ok"
         THEN [err |-> Err("login failed", mr.result.message), store |-> FALSE, sessionID |-> EmptyString]
    ELSE [err |-> Nil, store |-> TRUE,
          sessionID |-> IF mr.result.response.t = "string" THEN mr.result.response.s ELSE <<"f">>]

\* What the rest of Login does with makeRequest's outcome: the error it
\* returns and, when it stores, the session id it stores.
LoginResult(mr) ==
    IF mr.err # Nil THEN [err |-> Err("login failed", mr.err.msg), store |-> FALSE, sessionID |-> EmptyString]
    ELSE IF mr.result.code # "ok"
         THEN [err |-> Err("login failed", mr.result.message), store |-> FALSE, sessionID |-> EmptyString]
    ELSE IF mr.result.response.t = "string"
         THEN [err |-> Nil, store |-> TRUE, sessionID |-> mr.result.response.s]
    ELSE [err |-> Err("login failed: unexpected response type", ""), store |-> FALSE, sessionID |-> EmptyString]

\* What the rest of Logout does with makeRequest's outcome: the reply's
\* code is not inspected.
LogoutResult(mr) ==
    IF mr.err # Nil THEN [err |-> Err("logout failed", mr.err.msg), clear |-> FALSE]
    ELSE [err |-> Nil, clear |-> TRUE]

\* strconv.Atoi on a string of characters: an optional sign, then decimal
\* digits only; anything else (the empty string included) is an error.
Digits == <<"0", "1", "2", "3", "4", "5", "6", "7", "8", "9">>

IsDigit(c) == \E i \in 1..10 : Digits[i] = c

DigitVal(c) == (CHOOSE i \in 1..10 : Digits[i] = c) - 1

RECURSIVE DecVal(_)
DecVal(s) == IF s = <<>> THEN 0 ELSE 10 * DecVal(SubSeq(s, 1, Len(s) - 1)) + DigitVal(s[Len(s)])

Atoi(s) ==
    LET signed == s # <<>> /\ s[1] \in {"+", "-"}
        d == IF signed THEN Tail(s) ELSE s
    IN IF d = <<>> \/ \E i \in 1..Len(d) : ~IsDigit(d[i])
       THEN [err |-> TRUE, n |-> 0]
       ELSE [err |-> FALSE, n |-> IF signed /\ s[1] = "-" THEN 0 - DecVal(d) ELSE DecVal(d)]

\* Client.AddWebDomain after makeRequest: the id is taken from a JSON number
\* or from a numeric string.
AddWebDomainResult(mr) ==
    IF mr.err # Nil THEN [err |-> Err("failed to add web domain", mr.err.msg), id |-> 0]
    ELSE IF mr.result.code # "ok"
         THEN [err |-> Err("failed to add web domain", mr.result.message), id |-> 0]
    ELSE IF mr.result.response.t = "number"
         THEN [err |-> Nil, id |-> mr.result.response.n]
    ELSE IF mr.result.response.t = "string"
         THEN IF Atoi(mr.result.response.s).err
              THEN [err |-> Err("failed to parse domain ID string", ""), id |-> 0]
              ELSE [err |-> Nil, id |-> Atoi(mr.result.response.s).n]
    ELSE [err |-> Err("unexpected response type", ""), id |-> 0]

\* Client.GetWebDomain after makeRequest: the payload is re-marshalled and
\* unmarshalled into a WebDomain; only an object (or null, which leaves the
\* zero value) unmarshals into a struct.
GetWebDomainResult(mr) ==
    IF mr.err # Nil THEN [err |-> Err("failed to get web domain", mr.err.msg), domain |-> ZeroDomain]
    ELSE IF mr.result.code # "ok"
         THEN [err |-> Err("failed to get web domain", mr.result.message), domain |-> ZeroDomain]
    ELSE IF mr.result.response.t = "object"
         THEN [err |-> Nil, domain |-> mr.result.response.o]
    ELSE IF mr.result.response.t = "null"
         THEN [err |-> Nil, domain |-> ZeroDomain]
    ELSE [err |-> Err("failed to unmarshal web domain", ""), domain |-> ZeroDomain]

\* UpdateWebDomain without the check of the reply's code.
UpdateWebDomainResult_CodeUnchecked(mr) ==
    IF mr.err # Nil THEN [err |-> Err("failed to update web domain", mr.err.msg)]
    ELSE [err |-> Nil]

\* Client.UpdateWebDomain after makeRequest.
UpdateWebDomainResult(mr) ==
    IF mr.err # Nil THEN [err |-> Err("failed to update web domain", mr.err.msg)]
    ELSE IF mr.result.code # "ok"
         THEN [err |-> Err("failed to update web domain", mr.result.message)]
    ELSE [err |-> Nil]

\* Client.DeleteWebDomain after makeRequest.
DeleteWebDomainResult(mr) ==
    IF mr.err # Nil THEN [err |-> Err("failed to delete web domain", mr.err.msg)]
    ELSE IF mr.result.code # "ok"
         THEN [err |-> Err("failed to delete web domain", mr.result.message)]
    ELSE [err |-> Nil]

\* The entity calls the concurrent callers make.
EntityMethods == {"sites_web_domain_add", "sites_web_domain_update"}

\* The error an entity call returns to its caller.
EntityErr(method, mr) ==
    CASE method = "sites_web_domain_add" -> AddWebDomainResult(mr).err
      [] method = "sites_web_domain_get" -> GetWebDomainResult(mr).err
      [] method = "sites_web_domain_update" -> UpdateWebDomainResult(mr).err
      [] OTHER -> DeleteWebDomainResult(mr).err

\* ------------------------------------------------------------------------
\* Paths.  A path is a sequence of characters.
\* ------------------------------------------------------------------------
\* strings.Trim(s, "/"): the leading and the trailing slashes are cut.
RECURSIVE TrimLeft(_)
TrimLeft(s) == IF s # <<>> /\ Head(s) = "/" THEN TrimLeft(Tail(s)) ELSE s

RECURSIVE TrimRight(_)
TrimRight(s) == IF s # <<>> /\ s[Len(s)] = "/" THEN TrimRight(SubSeq(s, 1, Len(s) - 1)) ELSE s

Trim(s) == TrimRight(TrimLeft(s))

\* The elements of a path between its slashes.
RECURSIVE Split(_)
Split(s) ==
    IF s = <<>> THEN << <<>> >>
    ELSE LET rest == Split(Tail(s))
         IN IF Head(s) = "/" THEN << <<>> >> \o rest
            ELSE << <<Head(s)>> \o rest[1] >> \o Tail(rest)

\* filepath.Clean on the elements: empty elements and "." are dropped, ".."
\* removes the element before it (at the root it is dropped).
RECURSIVE CleanElems(_, _, _)
CleanElems(elems, out, rooted) ==
    IF elems = <<>> THEN out
    ELSE LET e == Head(elems)
         IN IF e = <<>> \/ e = <<".">> THEN CleanElems(Tail(elems), out, rooted)
            ELSE IF e # <<".", ".">> THEN CleanElems(Tail(elems), Append(out, e), rooted)
            ELSE IF out # <<>> /\ out[Len(out)] # <<".", ".">>
                 THEN CleanElems(Tail(elems), SubSeq(out, 1, Len(out) - 1), rooted)
            ELSE IF rooted THEN CleanElems(Tail(elems), out, rooted)
            ELSE CleanElems(Tail(elems), Append(out, e), rooted)

RECURSIVE JoinElems(_)
JoinElems(elems) ==
    IF elems = <<>> THEN <<>>
    ELSE IF Len(elems) = 1 THEN elems[1]
    ELSE elems[1] \o <<"/">> \o JoinElems(Tail(elems))

Clean(p) ==
    IF p = <<>> THEN <<".">>
    ELSE LET rooted == p[1] = "/"
             body == JoinElems(CleanElems(Split(p), <<>>, rooted))
         IN IF rooted THEN <<"/">> \o body
            ELSE IF body = <<>> THEN <<".">> ELSE body

\* filepath.Join of two elements: empty elements are ignored, the result is
\* cleaned; nothing to join gives the empty string.
Join(a, b) ==
    IF a = <<>> /\ b = <<>> THEN <<>>
    ELSE IF a = <<>> THEN Clean(b)
    ELSE IF b = <<>> THEN Clean(a)
    ELSE Clean(a \o <<"/">> \o b)

\* combineDocumentRoot(basePath, subdir)
combineDocumentRoot(basePath, subdir) ==
    IF subdir = <<>> THEN basePath ELSE Join(basePath, Trim(subdir))

\* strings.HasSuffix(s, suffix)
HasSuffix(s, suffix) ==
    Len(suffix) <= Len(s) /\ SubSeq(s, Len(s) - Len(suffix) + 1, Len(s)) = suffix

\* strings.TrimSuffix(s, suffix)
TrimSuffix(s, suffix) ==
    IF HasSuffix(s, suffix) THEN SubSeq(s, 1, Len(s) - Len(suffix)) ELSE s

\* Update's base path: the current document root without the root_subdir
\* of the state, if it ends with it.
updateBasePath(currentDocRoot, stateRootSubdir) ==
    IF stateRootSubdir # <<>> /\ HasSuffix(currentDocRoot, Trim(stateRootSubdir))
    THEN TrimSuffix(currentDocRoot, <<"/">> \o Trim(stateRootSubdir))
    ELSE currentDocRoot

\* ------------------------------------------------------------------------
\* The web hosting resource: plan, state, diagnostics
\* ------------------------------------------------------------------------
\* The null of a types.Int64 and of a types.String attribute.
NullInt == 0 - 1

NullStr == <<"null">>

\* A web hosting plan: the attributes the handlers branch on.
Plan(dr, rs, cid, sid, pv) ==
    [document_root |-> dr, root_subdir |-> rs, client_id |-> cid, server_id |-> sid,
     php_version |-> pv]

NoPlan == Plan(NullStr, NullStr, NullInt, NullInt, NullStr)

\* The configurations applied: document_root and root_subdir null or set
\* (root_subdir also set to the empty string), client_id and server_id null
\* or set, php_version null, a version the server has, or one it has not.
Plans ==
    {Plan(dr, rs, cid, sid, pv) :
        dr \in {NullStr, <<"/", "d">>},
        rs \in {NullStr, <<>>, <<"p">>},
        cid \in {NullInt, 1},
        sid \in {NullInt, 1},
        pv \in {NullStr, <<"8", ".", "4">>, <<"9", ".", "9">>}}

\* The configurations a web hosting resource is changed to: document_root
\* and root_subdir null or set, server_id null or another server, and
\* php_version null or a version both servers have.
UpdatePlans ==
    {Plan(dr, rs, NullInt, sid, pv) :
        dr \in {NullStr, <<"/", "d">>},
        rs \in {NullStr, <<"p">>},
        sid \in {NullInt, 2},
        pv \in {NullStr, <<"8", ".", "4">>}}

\* client_id / server_id of the provider configuration (0: not set).
ProviderIDs == {0, 1}

\* The state of the web hosting resource (present FALSE: no state).
NoState ==
    [present |-> FALSE, id |-> 0, server_id |-> NullInt, document_root |-> NullStr,
     root_subdir |-> NullStr, php_version |-> NullStr]

\* resp.Diagnostics of a handler: whether it has an error, and its summary.
NoDiag == [op |-> "none", error |-> FALSE, summary |-> ""]

\* r.phpIDToVersionMap / r.phpVersionToIDMap: nil, or the id -> version map
\* (the version -> id map is its inverse).
NilMap == [loaded |-> FALSE, m |-> <<>>]

\* The resource handler's position and locals.
NoHandler ==
    [pc |-> "idle", op |-> "none", plan |-> NoPlan, clientID |-> 0, serverID |-> 0,
     phpID |-> 0, domainID |-> 0, domain |-> ZeroDomain]

\* ------------------------------------------------------------------------
\* The other resources: cron task, web database, web user, email domain and
\* email inbox
\* ------------------------------------------------------------------------
\* The members of the CronJob, Database, ShellUser, MailDomain and MailUser
\* structs that the handlers resolve: the zero value.
ZeroRecord ==
    [server_id |-> 0, active |-> "", move_junk |-> "", purge_trash_days |-> "",
     purge_junk_days |-> ""]

\* A member of a JSON object: with omitempty the zero value is left out.
Member(v, zero, omitempty) == [present |-> ~(omitempty /\ v = zero), v |-> v]

\* json.Marshal of the struct of a resource: server_id is omitempty in all
\* of them; active is omitempty but in MailDomain; only MailUser has
\* move_junk, purge_trash_days and purge_junk_days, none of them omitempty.
Marshal(kind, rec) ==
    LET none == [present |-> FALSE, v |-> ""]
        own(v) == IF kind = "email_inbox" THEN Member(v, "", FALSE) ELSE none
    IN [server_id |-> Member(rec.server_id, 0, TRUE),
        active |-> Member(rec.active, "", kind # "email_domain"),
        move_junk |-> own(rec.move_junk),
        purge_trash_days |-> own(rec.purge_trash_days),
        purge_junk_days |-> own(rec.purge_junk_days)]

\* The Terraform state of the resource, its plan (server_id null or set,
\* active null or set and, for a cron task, the schedule), the struct the
\* handler has built, and the requests the handler in progress has sent.
NoEntity ==
    [kind |-> "none", state |-> [present |-> FALSE, id |-> 0, server_id |-> NullInt],
     plan |-> [server_id |-> NullInt, active |-> "null", schedule |-> <<>>],
     rec |-> ZeroRecord, sent |-> <<>>]

\* strings.Fields(s): the fields of s between its spaces.
RECURSIVE Fields(_)
Fields(s) ==
    IF s = <<>> THEN <<>>
    ELSE IF Head(s) = " " THEN Fields(Tail(s))
    ELSE LET n == IF \E i \in 1..Len(s) : s[i] = " "
                  THEN (CHOOSE i \in 1..Len(s) : s[i] = " " /\ \A j \in 1..(i - 1) : s[j] # " ") - 1
                  ELSE Len(s)
         IN <<SubSeq(s, 1, n)>> \o Fields(SubSeq(s, n + 1, Len(s)))

\* parseCronSchedule(schedule): the five fields, or an error.
parseCronSchedule(schedule) ==
    IF Len(Fields(schedule)) # 5 THEN [err |-> TRUE, parts |-> <<>>]
    ELSE [err |-> FALSE, parts |-> Fields(schedule)]

\* webDBBoolToYN(plan.Active.ValueBool()): a null attribute is false.
webDBBoolToYN(b) == IF b = "true" THEN "y" ELSE "n"

\* The plans applied to a resource of a kind: server_id null or set; active
\* as the kind has it; for a cron task a schedule of five fields or of
\* four.
EntityPlans(kind) ==
    {[server_id |-> sid, active |-> act, schedule |-> sched] :
        sid \in {NullInt, 2},
        act \in CASE kind = "cron_task" -> {"true"}
                 [] kind = "email_domain" -> {"null", "n"}
                 [] kind = "email_inbox" -> {"null"}
                 [] OTHER -> {"null", "true"},
        sched \in IF kind = "cron_task"
                  THEN {<<"*", " ", "*", " ", "*", " ", "*", " ", "*">>,
                        <<"*", " ", "*", " ", "*", " ", "*">>}
                  ELSE {<<>>}}

\* ------------------------------------------------------------------------
\* The remote system
\* ------------------------------------------------------------------------
\* Session tokens the server hands out.
Tokens == {<<"1">>, <<"x">>}

\* The document root the server generates for a new web domain.
BasePath == <<"/", "w">>

\* The PHP versions installed on server 1, by server_php_id.
ServerCatalog == << <<"8", ".", "4">> >>

\* The PHP versions installed on each server, by server id and
\* server_php_id: the same version has another id on another server.
Catalog(serverID) ==
    CASE serverID = 1 -> ServerCatalog
      [] serverID = 2 -> << <<"9", ".", "9">>, <<"8", ".", "4">> >>
      [] OTHER -> <<>>

\* A decimal number as the server writes it.
RECURSIVE Itoa(_)
Itoa(n) == IF n < 10 THEN <<Digits[n + 1]>> ELSE Itoa(n \div 10) \o <<Digits[(n % 10) + 1]>>

Ok(payload) == Http(TRUE, 200, TRUE, Envelope("ok", "", payload))

\* Replies of a request that did not get through, or that the server
\* refused (a session it does not know, or any other fault).
Refused ==
    {Http(FALSE, 0, FALSE, NoBody),
     Http(TRUE, 200, FALSE, Garbage),
     Http(TRUE, 500, TRUE, Envelope("error", "denied", JBool(FALSE))),
     Http(TRUE, 200, TRUE, Envelope("error", "denied", JBool(FALSE)))}

\* ------------------------------------------------------------------------
\* State
\* ------------------------------------------------------------------------
VARIABLES
    sessionID,  \* Client.sessionID
    mu,         \* Client.mu, a sync.RWMutex: w the writer (0: none), r the readers
    pc,         \* per caller: the statement it is at
    op,         \* per caller: the method of the call it is in
    params,     \* per caller: the session_id in its params (Login: the local sessionID)
    reply,      \* per caller: the HTTP exchange of its request
    ret,        \* per caller: the error its call returned
    nreq,       \* per caller: HTTP requests sent by the call
    pre,        \* per caller: sessionID when the call took the lock
    stale,      \* per caller: sessionID was written since the call read it
    server,     \* the remote system: live sessions, web domains by id, deleted ids
    provider,   \* the provider process: configured?, default ids, cached PHP map
    handler,    \* the resource handler in progress: position and locals
    tfstate,    \* the Terraform state of the web hosting resource
    diag,       \* resp.Diagnostics of the handler that has just finished
    obs,        \* what happened on the wire during that handler
    entity,     \* a resource of another kind: its state, plan and requests sent
    fn          \* the decoder or state upgrader last applied: input and result

tvars == <<mu, pc, op, params, reply, ret, nreq, pre, stale>>

cvars == <<sessionID, tvars>>

pvars == <<server, provider, handler, tfstate, diag, obs, entity, fn>>

vars == <<cvars, pvars>>

NoReply == Http(FALSE, 0, FALSE, Garbage)

\* NewClient: the zero sessionID and an unlocked mutex.
NewClient ==
    /\ sessionID = EmptyString
    /\ mu = [w |-> 0, r |-> {}]

\* No decoder or upgrader has been applied.
NoCall == [name |-> "none", arg |-> JNull, out |-> [err |-> FALSE]]

NoObs ==
    [failed |-> FALSE, created |-> 0, addReply |-> NoReply, called |-> FALSE,
     translated |-> FALSE]

ProviderOff == [status |-> "off", clientID |-> 0, serverID |-> 0, php |-> NilMap]

ProviderInit ==
    /\ server = [sessions |-> {}, domains |-> <<>>, deleted |-> {}, records |-> <<>>]
    /\ provider = ProviderOff
    /\ handler = NoHandler
    /\ tfstate = NoState
    /\ diag = NoDiag
    /\ obs = NoObs
    /\ entity = NoEntity
    /\ fn = NoCall

Init ==
    /\ NewClient
    /\ pc = [t \in Threads |-> "idle"]
    /\ op = [t \in Threads |-> "none"]
    /\ params = [t \in Threads |-> EmptyString]
    /\ reply = [t \in Threads |-> NoReply]
    /\ ret = [t \in Threads |-> Nil]
    /\ nreq = [t \in Threads |-> 0]
    /\ pre = [t \in Threads |-> EmptyString]
    /\ stale = [t \in Threads |-> FALSE]
    /\ ProviderInit

\* sync.RWMutex: Lock needs no holder at all, RLock needs no writer.
CanLock(m) == m.w = 0 /\ m.r = {}

\* A read lock that does not wait for the writer.
CanRLock_IgnoresWriter(m) == TRUE

CanRLock(m) == m.w = 0

\* A getSessionID that returns the zero string instead of the field.
getSessionID_Zero == EmptyString

\* The value getSessionID returns (read while the read lock is held).
getSessionID == sessionID

\* The request of caller t goes onto the wire and its exchange completes
\* with h (makeRequest's one httpClient.Do); params have been sent.
Send(t, h) ==
    /\ nreq' = [nreq EXCEPT ![t] = @ + 1]
    /\ reply' = [reply EXCEPT ![t] = h]
    /\ stale' = [stale EXCEPT ![t] = FALSE]

\* The call of caller t returns e; its locals are gone.
Return(t, e) ==
    /\ ret' = [ret EXCEPT ![t] = e]
    /\ params' = [params EXCEPT ![t] = EmptyString]
    /\ pre' = [pre EXCEPT ![t] = EmptyString]
    /\ pc' = [pc EXCEPT ![t] = "ret"]

\* The caller takes the returned value and is free to make its next call.
Resume(t) ==
    /\ pc[t] = "ret"
    /\ pc' = [pc EXCEPT ![t] = "idle"]
    /\ op' = [op EXCEPT ![t] = "none"]
    /\ reply' = [reply EXCEPT ![t] = NoReply]
    /\ ret' = [ret EXCEPT ![t] = Nil]
    /\ nreq' = [nreq EXCEPT ![t] = 0]
    /\ UNCHANGED <<sessionID, mu, params, pre, stale, pvars>>

\* A write of sessionID makes stale the read of every caller that has read
\* it and not yet sent its request.
Written == [u \in Threads |-> pc[u] = "E_req"]

\* ---- Client.Login ----
\* c.mu.Lock()
Login_Lock(t) ==
    /\ pc[t] = "idle"
    /\ CanLock(mu)
    /\ mu' = [mu EXCEPT !.w = t]
    /\ op' = [op EXCEPT ![t] = "login"]
    /\ pre' = [pre EXCEPT ![t] = sessionID]
    /\ pc' = [pc EXCEPT ![t] = "L_req"]
    /\ UNCHANGED <<sessionID, params, reply, ret, nreq, stale, pvars>>

\* makeRequest("login") and the checks after it: an error returns (the
\* deferred Unlock runs); otherwise the caller goes on to the assignment.
Login_Request(t) ==
    /\ pc[t] = "L_req"
    /\ \E h \in HttpReplies :
        LET r == LoginResult(makeRequest(h)) IN
        /\ Send(t, h)
        /\ IF r.store
           THEN /\ params' = [params EXCEPT ![t] = r.sessionID]
                /\ pc' = [pc EXCEPT ![t] = "L_store"]
                /\ UNCHANGED <<mu, ret, pre>>
           ELSE /\ Return(t, r.err)
                /\ mu' = [mu EXCEPT !.w = 0]
    /\ UNCHANGED <<sessionID, op, pvars>>

\* c.sessionID = sessionID; return nil (the deferred Unlock runs).
Login_Store(t) ==
    /\ pc[t] = "L_store"
    /\ sessionID' = params[t]
    /\ Return(t, LoginResult(makeRequest(reply[t])).err)
    /\ mu' = [mu EXCEPT !.w = 0]
    /\ stale' = Written
    /\ UNCHANGED <<op, reply, nreq, pvars>>

\* ---- Client.Logout ----
\* c.mu.Lock()
Logout_Lock(t) ==
    /\ pc[t] = "idle"
    /\ CanLock(mu)
    /\ mu' = [mu EXCEPT !.w = t]
    /\ op' = [op EXCEPT ![t] = "logout"]
    /\ pre' = [pre EXCEPT ![t] = sessionID]
    /\ pc' = [pc EXCEPT ![t] = "O_chk"]
    /\ UNCHANGED <<sessionID, params, reply, ret, nreq, stale, pvars>>

\* if c.sessionID == "" { return nil }; otherwise the session id goes into
\* params.
Logout_Check(t) ==
    /\ pc[t] = "O_chk"
    /\ IF sessionID = EmptyString
       THEN /\ Return(t, Nil)
            /\ mu' = [mu EXCEPT !.w = 0]
       ELSE /\ params' = [params EXCEPT ![t] = sessionID]
            /\ pc' = [pc EXCEPT ![t] = "O_req"]
            /\ UNCHANGED <<mu, ret, pre>>
    /\ UNCHANGED <<sessionID, op, reply, nreq, stale, pvars>>

\* makeRequest("logout"): an error returns with the session id kept (the
\* deferred Unlock runs); otherwise the caller goes on to clear it.
Logout_Request(t) ==
    /\ pc[t] = "O_req"
    /\ \E h \in HttpReplies :
        LET r == LogoutResult(makeRequest(h)) IN
        /\ Send(t, h)
        /\ IF r.clear
           THEN /\ pc' = [pc EXCEPT ![t] = "O_clear"]
                /\ UNCHANGED <<mu, ret, params, pre>>
           ELSE /\ Return(t, r.err)
                /\ mu' = [mu EXCEPT !.w = 0]
    /\ UNCHANGED <<sessionID, op, pvars>>

\* c.sessionID = ""; return nil (the deferred Unlock runs).
Logout_Clear(t) ==
    /\ pc[t] = "O_clear"
    /\ sessionID' = EmptyString
    /\ Return(t, LogoutResult(makeRequest(reply[t])).err)
    /\ mu' = [mu EXCEPT !.w = 0]
    /\ stale' = Written
    /\ UNCHANGED <<op, reply, nreq, pvars>>

\* ---- An entity call (AddWebDomain, UpdateWebDomain, ...): params are
\* ---- built with getSessionID(), then makeRequest runs and the reply is
\* ---- examined.
\* c.mu.RLock()
getSessionID_RLock(t) ==
    /\ pc[t] = "idle"
    /\ CanRLock(mu)
    /\ mu' = [mu EXCEPT !.r = @ \cup {t}]
    /\ \E m \in EntityMethods : op' = [op EXCEPT ![t] = m]
    /\ pc' = [pc EXCEPT ![t] = "E_read"]
    /\ UNCHANGED <<sessionID, params, reply, ret, nreq, pre, stale, pvars>>

\* return c.sessionID (the deferred RUnlock runs)
getSessionID_Read(t) ==
    /\ pc[t] = "E_read"
    /\ params' = [params EXCEPT ![t] = getSessionID]
    /\ mu' = [mu EXCEPT !.r = @ \ {t}]
    /\ pc' = [pc EXCEPT ![t] = "E_req"]
    /\ UNCHANGED <<sessionID, op, reply, ret, nreq, pre, stale, pvars>>

\* makeRequest(method) and the checks after it.
Entity_Request(t) ==
    /\ pc[t] = "E_req"
    /\ \E h \in HttpReplies :
        /\ Send(t, h)
        /\ Return(t, EntityErr(op[t], makeRequest(h)))
    /\ UNCHANGED <<sessionID, mu, op, pvars>>

Next ==
    \E t \in Threads :
        \/ Login_Lock(t)
        \/ Login_Request(t)
        \/ Login_Store(t)
        \/ Logout_Lock(t)
        \/ Logout_Check(t)
        \/ Logout_Request(t)
        \/ Logout_Clear(t)
        \/ getSessionID_RLock(t)
        \/ getSessionID_Read(t)
        \/ Entity_Request(t)
        \/ Resume(t)

Spec == Init /\ [][Next]_vars

\* ------------------------------------------------------------------------
\* The remote system serving the calls of the handlers.  An outcome is the
\* HTTP exchange the client sees and the state the server is left in.
\* ------------------------------------------------------------------------
Outcome(x, s) == [http |-> x, server |-> s]

\* The request is lost or refused: nothing changes on the server.
Refusals == {Outcome(x, server) : x \in Refused}

Live(sid) == sid \in server.sessions

Exists(id) == id \in (1..Len(server.domains)) \ server.deleted

\* login: a token is handed out and its session is live from then on.
ServeLogin ==
    Refusals \cup
    {Outcome(Ok(JStr(tok)), [server EXCEPT !.sessions = @ \cup {tok}]) : tok \in Tokens}

\* sites_web_domain_add: the domain is stored under the next id, with a
\* generated document root unless one was given, and the id is echoed as a
\* number or as a numeric string.
ServeAdd(sid, d) ==
    Refusals \cup
    IF Live(sid) /\ Len(server.domains) < MaxEntities
    THEN LET id == Len(server.domains) + 1
             stored == [d EXCEPT !.document_root = IF @ = <<>> THEN BasePath ELSE @]
         IN {Outcome(Ok(p), [server EXCEPT !.domains = Append(@, stored)]) :
                p \in {JNum(id), JStr(Itoa(id))}}
    ELSE {}

\* sites_web_domain_get: the stored domain; an empty array for an id that
\* has no record.
ServeGet(sid, id) ==
    Refusals \cup
    IF ~Live(sid) THEN {}
    ELSE IF Exists(id) THEN {Outcome(Ok(JObj(server.domains[id])), server)}
    ELSE {Outcome(Ok(JArr), server)}

\* sites_web_domain_update with a document root.
ServeUpdate(sid, id, docroot) ==
    Refusals \cup
    IF Live(sid) /\ Exists(id)
    THEN {Outcome(Ok(JNum(1)), [server EXCEPT !.domains[id].document_root = docroot])}
    ELSE {}

\* sites_web_domain_update with a WebDomain: the members that are not
\* omitted (omitempty) replace the stored ones.
ServeUpdateDomain(sid, id, d) ==
    Refusals \cup
    IF Live(sid) /\ Exists(id)
    THEN {Outcome(Ok(JNum(1)),
                  [server EXCEPT !.domains[id] =
                      [server_id |-> IF d.server_id # 0 THEN d.server_id ELSE @.server_id,
                       document_root |-> IF d.document_root # <<>> THEN d.document_root
                                         ELSE @.document_root,
                       server_php_id |-> IF d.server_php_id # 0 THEN d.server_php_id
                                         ELSE @.server_php_id,
                       php |-> @.php]])}
    ELSE {}

\* sites_web_domain_delete
ServeDelete(sid, id) ==
    Refusals \cup
    IF Live(sid) /\ Exists(id)
    THEN {Outcome(Ok(JNum(1)), [server EXCEPT !.deleted = @ \cup {id}])}
    ELSE {}

\* server_get_php_versions: the array of the installed versions.
ServePHPVersions(sid) ==
    Refusals \cup IF Live(sid) THEN {Outcome(Ok(JArr), server)} ELSE {}

\* Client.GetPHPVersions(serverID, phpType) after makeRequest, as
\* ensurePHPVersionMap uses its result: the id -> version map of the array
\* the server returns for the server asked about.
GetPHPVersionsResult(mr, serverID) ==
    IF mr.err # Nil THEN [err |-> Err("failed to get PHP versions", mr.err.msg), map |-> NilMap]
    ELSE IF mr.result.code # "ok"
         THEN [err |-> Err("failed to get PHP versions", mr.result.message), map |-> NilMap]
    ELSE IF mr.result.response.t # "array"
         THEN [err |-> Err("failed to parse PHP versions response", ""), map |-> NilMap]
    ELSE [err |-> Nil, map |-> [loaded |-> TRUE, m |-> Catalog(serverID)]]

\* A reverse map that gives every version the first id of the catalog.
phpVersionToID_FirstID(map, version) ==
    IF \E id \in DOMAIN map.m : map.m[id] = version
    THEN [err |-> FALSE, id |-> 1]
    ELSE [err |-> TRUE, id |-> 0]

\* phpVersionToID: the id of a version in the map, or an error.
phpVersionToID(map, version) ==
    IF \E id \in DOMAIN map.m : map.m[id] = version
    THEN [err |-> FALSE, id |-> CHOOSE id \in DOMAIN map.m : map.m[id] = version]
    ELSE [err |-> TRUE, id |-> 0]

\* phpIDToVersion: the version of an id in the map, or the empty string.
phpIDToVersion(map, id) == IF id \in DOMAIN map.m THEN map.m[id] ELSE <<>>

\* ------------------------------------------------------------------------
\* The provider and the handlers of the web hosting resource.  One handler
\* runs at a time; its remote calls are separate steps, between which the
\* server may drop its sessions.
\* ------------------------------------------------------------------------
\* A remote call of the handler returned the error e: it is on record that
\* a call was made, and that a call failed.
Called(e) == [obs EXCEPT !.called = TRUE, !.failed = @ \/ (e # Nil)]

\* phpVersionToID or phpIDToVersion was called (did) by the handler.
Translated(o, did) == [o EXCEPT !.translated = @ \/ did]

\* The handler returns with these diagnostics (the plan it was called with
\* stays on record until Terraform has taken the response).
Finish(o, iserr, summary) ==
    /\ handler' = [NoHandler EXCEPT !.pc = "done", !.plan = handler.plan]
    /\ diag' = [op |-> o, error |-> iserr, summary |-> summary]

\* The handler returns before it has done anything with the plan.
Refuse(o, plan, summary) ==
    /\ handler' = [NoHandler EXCEPT !.pc = "done", !.plan = plan]
    /\ diag' = [op |-> o, error |-> TRUE, summary |-> summary]

\* A configuration that sets both document_root and root_subdir, as no
\* handler takes it to be.
Conflicting_Never(plan) == FALSE

\* !config.DocumentRoot.IsNull() && !config.RootSubdir.IsNull()
Conflicting(plan) == plan.document_root # NullStr /\ plan.root_subdir # NullStr

\* The server drops its sessions (session timeout).
SessionTimeout ==
    /\ server.sessions # {}
    /\ server' = [server EXCEPT !.sessions = {}]
    /\ UNCHANGED <<sessionID, tvars, fn, entity, provider, handler, tfstate, diag, obs>>

\* ISPConfigProvider.Configure: the ids are read from the configuration, a
\* client is made and Login is called once; its error fails Configure,
\* otherwise the client is handed to the resources.
Configure ==
    /\ provider.status = "off"
    /\ \E cid \in ProviderIDs, sid \in ProviderIDs, o \in ServeLogin :
        LET r == LoginResult(makeRequest(o.http)) IN
        /\ server' = o.server
        /\ IF r.err # Nil
           THEN /\ provider' = [provider EXCEPT !.status = "failed"]
                /\ sessionID' = EmptyString
           ELSE /\ provider' = [provider EXCEPT !.status = "ready", !.clientID = cid,
                                                !.serverID = sid]
                /\ sessionID' = r.sessionID
    /\ UNCHANGED <<tvars, fn, entity, handler, tfstate, diag, obs>>

\* The provider process ends (one per Terraform command); the next one
\* starts with a new client and new resource instances.  Logout is not
\* called.
Exit ==
    /\ provider.status # "off"
    /\ handler.pc = "idle"
    /\ provider' = ProviderOff
    /\ sessionID' = EmptyString
    /\ UNCHANGED <<tvars, fn, entity, server, handler, tfstate, diag, obs>>

\* Terraform has taken the response of the handler.
Done ==
    /\ handler.pc = "done"
    /\ handler' = NoHandler
    /\ diag' = NoDiag
    /\ obs' = NoObs
    /\ UNCHANGED <<sessionID, tvars, fn, entity, server, provider, tfstate>>

\* Resource instances that take requests whether or not the provider has
\* handed them a client.
Ready_Unconfigured == handler.pc = "idle"

Ready == provider.status = "ready" /\ handler.pc = "idle"

\* ---- webHostingResource.Create ----
\* The id of plan.php_version once the map is there: unknown versions end
\* the handler, the others go on to AddWebDomain.
Create_Build(plan, cid, sid, map, o) ==
    /\ obs' = Translated(o, plan.php_version # NullStr)
    /\ IF plan.php_version # NullStr /\ phpVersionToID(map, plan.php_version).err
       THEN Finish("Create", TRUE, "Invalid PHP Version")
       ELSE /\ handler' = [handler EXCEPT !.pc = "C_add", !.op = "Create", !.plan = plan,
                              !.clientID = cid, !.serverID = sid,
                              !.phpID = IF plan.php_version # NullStr
                                        THEN phpVersionToID(map, plan.php_version).id ELSE 0]
            /\ UNCHANGED diag

\* The checks before any remote call: document_root against root_subdir,
\* the client id, the server id; then the PHP map is asked for if
\* php_version is set and the map is still nil.
Create_Validate ==
    /\ Ready
    /\ ~tfstate.present
    /\ \E plan \in Plans :
        LET cid == IF plan.client_id # NullInt THEN plan.client_id ELSE provider.clientID
            sid == IF plan.server_id # NullInt THEN plan.server_id ELSE provider.serverID
        IN IF Conflicting(plan)
           THEN Refuse("Create", plan, "Conflicting Configuration") /\ UNCHANGED obs
           ELSE IF cid = 0 THEN Refuse("Create", plan, "Missing Client ID") /\ UNCHANGED obs
           ELSE IF sid = 0 THEN Refuse("Create", plan, "Missing Server ID") /\ UNCHANGED obs
           ELSE IF plan.php_version # NullStr /\ ~provider.php.loaded
                THEN /\ handler' = [handler EXCEPT !.pc = "C_php", !.op = "Create", !.plan = plan,
                                       !.clientID = cid, !.serverID = sid]
                     /\ UNCHANGED <<diag, obs>>
           ELSE Create_Build(plan, cid, sid, provider.php, obs)
    /\ UNCHANGED <<sessionID, tvars, fn, entity, server, provider, tfstate>>

\* ensurePHPVersionMap: GetPHPVersions, whose error ends the handler.
Create_PHPVersions ==
    /\ handler.pc = "C_php"
    /\ \E o \in ServePHPVersions(getSessionID) :
        LET r == GetPHPVersionsResult(makeRequest(o.http), handler.serverID) IN
        /\ server' = o.server
        /\ IF r.err # Nil
           THEN /\ Finish("Create", TRUE, "Failed to Fetch PHP Versions")
                /\ obs' = Called(r.err)
                /\ UNCHANGED provider
           ELSE /\ provider' = [provider EXCEPT !.php = r.map]
                /\ Create_Build(handler.plan, handler.clientID, handler.serverID, r.map,
                                Called(r.err))
    /\ UNCHANGED <<sessionID, tvars, fn, entity, tfstate>>

\* A WebDomain sent by Create without the server id.
CreateDomain_NoServerID ==
    [server_id |-> 0,
     document_root |-> IF handler.plan.document_root # NullStr /\ handler.plan.root_subdir = NullStr
                       THEN handler.plan.document_root ELSE <<>>,
     server_php_id |-> handler.phpID,
     php |-> ""]

\* The WebDomain sent by Create: document_root only if root_subdir is null.
CreateDomain ==
    [server_id |-> handler.serverID,
     document_root |-> IF handler.plan.document_root # NullStr /\ handler.plan.root_subdir = NullStr
                       THEN handler.plan.document_root ELSE <<>>,
     server_php_id |-> handler.phpID,
     php |-> ""]

\* domainID, err := r.client.AddWebDomain(domain, clientID)
Create_Add ==
    /\ handler.pc = "C_add"
    /\ \E o \in ServeAdd(getSessionID, CreateDomain) :
        LET r == AddWebDomainResult(makeRequest(o.http)) IN
        /\ server' = o.server
        /\ obs' = [Called(r.err) EXCEPT !.addReply = o.http,
                                        !.created = IF o.server # server
                                                    THEN Len(o.server.domains) ELSE 0]
        /\ IF r.err # Nil
           THEN Finish("Create", TRUE, "Error creating web hosting")
           ELSE /\ handler' = [handler EXCEPT !.pc = "C_get", !.domainID = r.id]
                /\ UNCHANGED diag
    /\ UNCHANGED <<sessionID, tvars, fn, entity, provider, tfstate>>

\* A Create that saves the plan without having put the new id into it.
CreateState_IDNotSet(d) ==
    [present |-> TRUE,
     id |-> 0,
     server_id |-> IF handler.plan.server_id = NullInt THEN d.server_id ELSE handler.plan.server_id,
     document_root |-> IF handler.plan.document_root = NullStr THEN d.document_root
                       ELSE handler.plan.document_root,
     root_subdir |-> handler.plan.root_subdir,
     php_version |-> IF handler.plan.php_version = NullStr
                     THEN phpIDToVersion(provider.php, d.server_php_id)
                     ELSE handler.plan.php_version]

\* The plan with its computed values, as Create saves it.
CreateState(d) ==
    [present |-> TRUE,
     id |-> handler.domainID,
     server_id |-> IF handler.plan.server_id = NullInt THEN d.server_id ELSE handler.plan.server_id,
     document_root |-> IF handler.plan.document_root = NullStr THEN d.document_root
                       ELSE handler.plan.document_root,
     root_subdir |-> handler.plan.root_subdir,
     php_version |-> IF handler.plan.php_version = NullStr
                     THEN phpIDToVersion(provider.php, d.server_php_id)
                     ELSE handler.plan.php_version]

\* createdDomain, err := r.client.GetWebDomain(domainID); without a
\* root_subdir to apply, the state is set.
Create_Get ==
    /\ handler.pc = "C_get"
    /\ \E o \in ServeGet(getSessionID, handler.domainID) :
        LET r == GetWebDomainResult(makeRequest(o.http)) IN
        /\ server' = o.server
        /\ IF r.err # Nil
           THEN /\ Finish("Create", TRUE, "Error reading created web hosting")
                /\ obs' = Called(r.err)
                /\ UNCHANGED tfstate
           ELSE IF handler.plan.root_subdir # NullStr /\ handler.plan.root_subdir # <<>>
                THEN /\ handler' = [handler EXCEPT !.pc = "C_upd", !.domain = r.domain]
                     /\ obs' = Called(r.err)
                     /\ UNCHANGED <<diag, tfstate>>
           ELSE /\ tfstate' = CreateState(r.domain)
                /\ obs' = Translated(Called(r.err), handler.plan.php_version = NullStr)
                /\ Finish("Create", FALSE, "")
    /\ UNCHANGED <<sessionID, tvars, fn, entity, provider>>

\* UpdateWebDomain with the combined document root.
Create_Update ==
    /\ handler.pc = "C_upd"
    /\ \E o \in ServeUpdate(getSessionID, handler.domainID,
                            combineDocumentRoot(handler.domain.document_root, handler.plan.root_subdir)) :
        LET r == UpdateWebDomainResult(makeRequest(o.http)) IN
        /\ server' = o.server
        /\ obs' = Called(r.err)
        /\ IF r.err # Nil
           THEN Finish("Create", TRUE, "Error updating document root with subdir")
           ELSE /\ handler' = [handler EXCEPT !.pc = "C_get2"]
                /\ UNCHANGED diag
    /\ UNCHANGED <<sessionID, tvars, fn, entity, provider, tfstate>>

\* The second GetWebDomain; then the state is set.
Create_GetUpdated ==
    /\ handler.pc = "C_get2"
    /\ \E o \in ServeGet(getSessionID, handler.domainID) :
        LET r == GetWebDomainResult(makeRequest(o.http)) IN
        /\ server' = o.server
        /\ IF r.err # Nil
           THEN /\ Finish("Create", TRUE, "Error reading updated web hosting")
                /\ obs' = Called(r.err)
                /\ UNCHANGED tfstate
           ELSE /\ tfstate' = CreateState(r.domain)
                /\ obs' = Translated(Called(r.err), handler.plan.php_version = NullStr)
                /\ Finish("Create", FALSE, "")
    /\ UNCHANGED <<sessionID, tvars, fn, entity, provider>>

\* ---- webHostingResource.Read ----
\* The state as Read saves it: document_root always, server_id and
\* php_version only when the server has a value for them.
ReadState(d, map) ==
    [tfstate EXCEPT
        !.document_root = d.document_root,
        !.server_id = IF d.server_id # 0 THEN d.server_id ELSE @,
        !.php_version = IF d.server_php_id # 0 /\ phpIDToVersion(map, d.server_php_id) # <<>>
                        THEN phpIDToVersion(map, d.server_php_id) ELSE @]

\* domain, err := r.client.GetWebDomain(domainID); the PHP map is asked for
\* if the domain has a server_php_id and the map is still nil.
Read_Get ==
    /\ Ready
    /\ tfstate.present
    /\ \E o \in ServeGet(getSessionID, tfstate.id) :
        LET r == GetWebDomainResult(makeRequest(o.http)) IN
        /\ server' = o.server
        /\ IF r.err # Nil
           THEN /\ Finish("Read", TRUE, "Error reading web hosting")
                /\ obs' = Called(r.err)
                /\ UNCHANGED tfstate
           ELSE IF r.domain.server_php_id # 0 /\ ~provider.php.loaded
                THEN /\ handler' = [handler EXCEPT !.pc = "R_php", !.op = "Read", !.domain = r.domain]
                     /\ obs' = Called(r.err)
                     /\ UNCHANGED <<diag, tfstate>>
           ELSE /\ tfstate' = ReadState(r.domain, provider.php)
                /\ obs' = Translated(Called(r.err), r.domain.server_php_id # 0)
                /\ Finish("Read", FALSE, "")
    /\ UNCHANGED <<sessionID, tvars, fn, entity, provider>>

\* ensurePHPVersionMap in Read: its error is logged as a warning and the
\* handler goes on to set the state.
Read_PHPVersions ==
    /\ handler.pc = "R_php"
    /\ \E o \in ServePHPVersions(getSessionID) :
        LET r == GetPHPVersionsResult(makeRequest(o.http), handler.domain.server_id) IN
        /\ server' = o.server
        /\ obs' = Translated(Called(r.err), TRUE)
        /\ provider' = IF r.err # Nil THEN provider ELSE [provider EXCEPT !.php = r.map]
        /\ tfstate' = ReadState(handler.domain, IF r.err # Nil THEN provider.php ELSE r.map)
        /\ Finish("Read", FALSE, "")
    /\ UNCHANGED <<sessionID, tvars, fn, entity>>

\* ---- webHostingResource.Delete ----
\* A Delete after which the state is removed whether or not the remote
\* delete went through.
Delete_RemovesOnError ==
    /\ Ready
    /\ tfstate.present
    /\ \E o \in ServeDelete(getSessionID, tfstate.id) :
        LET r == DeleteWebDomainResult(makeRequest(o.http)) IN
        /\ server' = o.server
        /\ obs' = Called(r.err)
        /\ tfstate' = NoState
        /\ IF r.err # Nil
           THEN Finish("Delete", TRUE, "Error deleting web hosting")
           ELSE Finish("Delete", FALSE, "")
    /\ UNCHANGED <<sessionID, tvars, fn, entity, provider>>

\* err := r.client.DeleteWebDomain(domainID); without an error the
\* framework removes the state.
Delete ==
    /\ Ready
    /\ tfstate.present
    /\ \E o \in ServeDelete(getSessionID, tfstate.id) :
        LET r == DeleteWebDomainResult(makeRequest(o.http)) IN
        /\ server' = o.server
        /\ obs' = Called(r.err)
        /\ IF r.err # Nil
           THEN /\ Finish("Delete", TRUE, "Error deleting web hosting")
                /\ UNCHANGED tfstate
           ELSE /\ tfstate' = NoState
                /\ Finish("Delete", FALSE, "")
    /\ UNCHANGED <<sessionID, tvars, fn, entity, provider>>

\* ---- webHostingResource.Update ----
\* ValueString() of an attribute: the empty string for null.
ValueString(v) == IF v = NullStr THEN <<>> ELSE v

\* The document root Update sends: root_subdir of the configuration on the
\* base path, the base path if root_subdir was removed, document_root of
\* the configuration, or nothing.
updateDocumentRoot(plan, stateRootSubdir, currentDocRoot) ==
    IF ValueString(plan.root_subdir) # <<>>
    THEN combineDocumentRoot(updateBasePath(currentDocRoot, stateRootSubdir),
                             ValueString(plan.root_subdir))
    ELSE IF stateRootSubdir # <<>> THEN updateBasePath(currentDocRoot, stateRootSubdir)
    ELSE IF plan.document_root # NullStr THEN plan.document_root
    ELSE <<>>

\* The checks before any remote call: document_root against root_subdir in
\* the configuration, and the client id.
Update_Validate ==
    /\ Ready
    /\ tfstate.present
    /\ \E plan \in UpdatePlans :
        /\ Exists(tfstate.id) =>
              Len(updateDocumentRoot(plan, ValueString(tfstate.root_subdir),
                                     server.domains[tfstate.id].document_root)) <= MaxDocRoot
        /\ LET cid == IF plan.client_id # NullInt THEN plan.client_id ELSE provider.clientID
          IN IF Conflicting(plan)
             THEN Refuse("Update", plan, "Conflicting Configuration")
             ELSE IF cid = 0 THEN Refuse("Update", plan, "Missing Client ID")
             ELSE /\ handler' = [handler EXCEPT !.pc = "U_get", !.op = "Update", !.plan = plan,
                                    !.clientID = cid, !.domainID = tfstate.id]
                  /\ UNCHANGED diag
    /\ UNCHANGED <<sessionID, tvars, fn, entity, server, provider, tfstate, obs>>

\* The id of plan.php_version once the map is there: unknown versions end
\* the handler, the others go on to UpdateWebDomain.
Update_Build(docroot, sid, map, o) ==
    /\ obs' = Translated(o, handler.plan.php_version # NullStr)
    /\ IF handler.plan.php_version # NullStr /\ phpVersionToID(map, handler.plan.php_version).err
       THEN Finish("Update", TRUE, "Invalid PHP Version")
       ELSE /\ handler' = [handler EXCEPT
                    !.pc = "U_upd", !.serverID = sid,
                    !.domain = [server_id |-> sid,
                                document_root |-> docroot,
                                server_php_id |-> IF handler.plan.php_version # NullStr
                                                  THEN phpVersionToID(map, handler.plan.php_version).id
                                                  ELSE 0,
                                php |-> ""]]
            /\ UNCHANGED diag

\* currentDomain, err2 := r.client.GetWebDomain(domainID); then the
\* document root is worked out, the server id is checked, and the PHP map is
\* asked for if php_version is set and the map is still nil.
Update_Get ==
    /\ handler.pc = "U_get"
    /\ \E o \in ServeGet(getSessionID, handler.domainID) :
        LET r == GetWebDomainResult(makeRequest(o.http))
            docroot == updateDocumentRoot(handler.plan, ValueString(tfstate.root_subdir),
                                          r.domain.document_root)
            sid == IF handler.plan.server_id # NullInt THEN handler.plan.server_id
                   ELSE provider.serverID
        IN /\ server' = o.server
           /\ IF r.err # Nil
              THEN Finish("Update", TRUE, "Error reading current web hosting")
                   /\ obs' = Called(r.err)
              ELSE IF sid = 0
                   THEN Finish("Update", TRUE, "Missing Server ID") /\ obs' = Called(r.err)
              ELSE IF handler.plan.php_version # NullStr /\ ~provider.php.loaded
                   THEN /\ handler' = [handler EXCEPT !.pc = "U_php", !.serverID = sid,
                                          !.domain = [ZeroDomain EXCEPT !.document_root = docroot]]
                        /\ obs' = Called(r.err)
                        /\ UNCHANGED diag
              ELSE Update_Build(docroot, sid, provider.php, Called(r.err))
    /\ UNCHANGED <<sessionID, tvars, fn, entity, provider, tfstate>>

\* ensurePHPVersionMap: GetPHPVersions, whose error ends the handler.
Update_PHPVersions ==
    /\ handler.pc = "U_php"
    /\ \E o \in ServePHPVersions(getSessionID) :
        LET r == GetPHPVersionsResult(makeRequest(o.http), handler.serverID) IN
        /\ server' = o.server
        /\ IF r.err # Nil
           THEN /\ Finish("Update", TRUE, "Failed to Fetch PHP Versions")
                /\ obs' = Called(r.err)
                /\ UNCHANGED provider
           ELSE /\ provider' = [provider EXCEPT !.php = r.map]
                /\ Update_Build(handler.domain.document_root, handler.serverID, r.map,
                                Called(r.err))
    /\ UNCHANGED <<sessionID, tvars, fn, entity, tfstate>>

\* err := r.client.UpdateWebDomain(domainID, clientID, domain)
Update_Send ==
    /\ handler.pc = "U_upd"
    /\ \E o \in ServeUpdateDomain(getSessionID, handler.domainID, handler.domain) :
        LET r == UpdateWebDomainResult(makeRequest(o.http)) IN
        /\ server' = o.server
        /\ obs' = Called(r.err)
        /\ IF r.err # Nil
           THEN Finish("Update", TRUE, "Error updating web hosting")
           ELSE /\ handler' = [handler EXCEPT !.pc = "U_get2"]
                /\ UNCHANGED diag
    /\ UNCHANGED <<sessionID, tvars, fn, entity, provider, tfstate>>

\* The plan with its computed values, as Update saves it.
UpdateState(d) ==
    [present |-> TRUE,
     id |-> handler.domainID,
     server_id |-> IF handler.plan.server_id = NullInt THEN d.server_id ELSE handler.plan.server_id,
     document_root |-> IF handler.plan.document_root = NullStr THEN d.document_root
                       ELSE handler.plan.document_root,
     root_subdir |-> handler.plan.root_subdir,
     php_version |-> IF handler.plan.php_version = NullStr
                     THEN phpIDToVersion(provider.php, d.server_php_id)
                     ELSE handler.plan.php_version]

\* updatedDomain, err := r.client.GetWebDomain(domainID); then the state is
\* set.
Update_GetUpdated ==
    /\ handler.pc = "U_get2"
    /\ \E o \in ServeGet(getSessionID, handler.domainID) :
        LET r == GetWebDomainResult(makeRequest(o.http)) IN
        /\ server' = o.server
        /\ IF r.err # Nil
           THEN /\ Finish("Update", TRUE, "Error reading updated web hosting")
                /\ obs' = Called(r.err)
                /\ UNCHANGED tfstate
           ELSE /\ tfstate' = UpdateState(r.domain)
                /\ obs' = Translated(Called(r.err), handler.plan.php_version = NullStr)
                /\ Finish("Update", FALSE, "")
    /\ UNCHANGED <<sessionID, tvars, fn, entity, provider>>

ProviderNext ==
    \/ Configure
    \/ Exit
    \/ SessionTimeout
    \/ Create_Validate
    \/ Create_PHPVersions
    \/ Create_Add
    \/ Create_Get
    \/ Create_Update
    \/ Create_GetUpdated
    \/ Read_Get
    \/ Read_PHPVersions
    \/ Delete
    \/ Done

ProviderSpec == Init /\ [][ProviderNext]_vars

\* One provider process creating the web hosting resource and updating it
\* again and again.
HostingNext ==
    \/ Configure
    \/ Create_Validate
    \/ Create_PHPVersions
    \/ Create_Add
    \/ Create_Get
    \/ Create_Update
    \/ Create_GetUpdated
    \/ Update_Validate
    \/ Update_Get
    \/ Update_PHPVersions
    \/ Update_Send
    \/ Update_GetUpdated
    \/ Done

HostingSpec == Init /\ [][HostingNext]_vars

\* The steps of the resource handlers, and those that end a handler without
\* an error.
Handlers ==
    \/ Create_Validate
    \/ Create_PHPVersions
    \/ Create_Add
    \/ Create_Get
    \/ Create_Update
    \/ Create_GetUpdated
    \/ Read_Get
    \/ Read_PHPVersions
    \/ Delete
    \/ Done

Succeeds == Handlers /\ handler'.pc = "done" /\ ~diag'.error

\* Terraform keeps calling the handlers and every call runs to its end; a
\* handler that can end without an error again and again does so at some
\* point (the network and the server do not fail for ever).  Nothing
\* obliges the provider process to end and be configured again.
ProviderFairSpec ==
    Init /\ [][ProviderNext]_vars /\ WF_vars(Handlers) /\ SF_vars(Succeeds)

\* ------------------------------------------------------------------------
\* The remote system serving the calls for the other entities
\* ------------------------------------------------------------------------
\* The record the server stores for the members it was sent.
StoredRecord(w, old) ==
    [server_id |-> IF w.server_id.present THEN w.server_id.v ELSE old.server_id,
     active |-> IF w.active.present THEN w.active.v ELSE old.active,
     move_junk |-> IF w.move_junk.present THEN w.move_junk.v ELSE old.move_junk,
     purge_trash_days |-> IF w.purge_trash_days.present THEN w.purge_trash_days.v
                          ELSE old.purge_trash_days,
     purge_junk_days |-> IF w.purge_junk_days.present THEN w.purge_junk_days.v
                         ELSE old.purge_junk_days]

\* <entity>_add: the record is stored under the next id, which is echoed as
\* a number or as a numeric string.
ServeAddRecord(sid, w) ==
    Refusals \cup
    IF Live(sid) /\ Len(server.records) < MaxEntities
    THEN LET id == Len(server.records) + 1
         IN {Outcome(Ok(p), [server EXCEPT !.records = Append(@, StoredRecord(w, ZeroRecord))]) :
                p \in {JNum(id), JStr(Itoa(id))}}
    ELSE {}

\* <entity>_get: the stored record (the handlers read its server_id back);
\* an empty array for an id that has no record.
ServeGetRecord(sid, id) ==
    Refusals \cup
    IF ~Live(sid) THEN {}
    ELSE IF id \in DOMAIN server.records
         THEN {Outcome(Ok(JObj([ZeroDomain EXCEPT !.server_id = server.records[id].server_id])),
                       server)}
    ELSE {Outcome(Ok(JArr), server)}

\* <entity>_update: the members sent replace the stored ones.
ServeUpdateRecord(sid, id, w) ==
    Refusals \cup
    IF Live(sid) /\ id \in DOMAIN server.records
    THEN {Outcome(Ok(JNum(1)), [server EXCEPT !.records[id] = StoredRecord(w, @)])}
    ELSE {}

\* ------------------------------------------------------------------------
\* The client's calls for the other entities
\* ------------------------------------------------------------------------
\* An Add call after makeRequest: the id is taken from a JSON number or from
\* a numeric string.
AddIDResult(mr, what) ==
    IF mr.err # Nil THEN [err |-> Err("failed to add " \o what, mr.err.msg), id |-> 0]
    ELSE IF mr.result.code # "ok"
         THEN [err |-> Err("failed to add " \o what, mr.result.message), id |-> 0]
    ELSE IF mr.result.response.t = "number"
         THEN [err |-> Nil, id |-> mr.result.response.n]
    ELSE IF mr.result.response.t = "string"
         THEN IF Atoi(mr.result.response.s).err
              THEN [err |-> Err("failed to parse " \o what \o " ID string", ""), id |-> 0]
              ELSE [err |-> Nil, id |-> Atoi(mr.result.response.s).n]
    ELSE [err |-> Err("unexpected response type", ""), id |-> 0]

\* A Get call after makeRequest: the payload is re-marshalled and
\* unmarshalled into the struct.
GetStructResult(mr, what) ==
    IF mr.err # Nil THEN [err |-> Err("failed to get " \o what, mr.err.msg), domain |-> ZeroDomain]
    ELSE IF mr.result.code # "ok"
         THEN [err |-> Err("failed to get " \o what, mr.result.message), domain |-> ZeroDomain]
    ELSE IF mr.result.response.t = "object"
         THEN [err |-> Nil, domain |-> mr.result.response.o]
    ELSE IF mr.result.response.t = "null"
         THEN [err |-> Nil, domain |-> ZeroDomain]
    ELSE [err |-> Err("failed to unmarshal " \o what, ""), domain |-> ZeroDomain]

\* The Add, Get and Update calls for cron jobs, mail domains and mail
\* users: Add returns the new identity, taken from a number or a numeric
\* string; Get returns the record; Update returns an error or none.
RecordResult(verb, mr) ==
    IF verb = "add" THEN AddIDResult(mr, "record")
    ELSE IF verb = "get" THEN GetStructResult(mr, "record")
    ELSE IF mr.err # Nil THEN [err |-> Err("failed to update record", mr.err.msg)]
    ELSE IF mr.result.code # "ok"
         THEN [err |-> Err("failed to update record", mr.result.message)]
    ELSE [err |-> Nil]

\* ------------------------------------------------------------------------
\* The handlers of the other resources.  Each handler resolves the client
\* id, builds its struct, sends one Add or Update request, reads the record
\* back and sets the state.
\* ------------------------------------------------------------------------
\* The remote methods of a resource kind, and what its diagnostics call it.
Resources ==
    [cron_task |-> [add |-> "sites_cron_add", update |-> "sites_cron_update",
                    noun |-> "cron task"],
     web_database |-> [add |-> "sites_database_add", noun |-> "database"],
     web_user |-> [add |-> "sites_shell_user_add", noun |-> "shell user"],
     email_domain |-> [add |-> "mail_domain_add", update |-> "mail_domain_update",
                       noun |-> "email domain"],
     email_inbox |-> [add |-> "mail_user_add", update |-> "mail_user_update",
                      noun |-> "email inbox"]]

\* The checks before the struct is built: the client id of the provider
\* (the plans set none), then what the resource checks of its own (bad: the
\* summary of its error, or none).  Then the struct is built and the
\* handler goes on to its request.
Built(o, kind, plan, bad, rec, nextpc) ==
    IF provider.clientID = 0 THEN Finish(o, TRUE, "Missing Client ID") /\ UNCHANGED entity
    ELSE IF bad # "" THEN Finish(o, TRUE, bad) /\ UNCHANGED entity
    ELSE /\ handler' = [handler EXCEPT !.pc = nextpc, !.op = o, !.clientID = provider.clientID,
                                       !.domainID = entity.state.id]
         /\ entity' = [entity EXCEPT !.kind = kind, !.plan = plan, !.rec = rec]
         /\ UNCHANGED diag

\* id, err := r.client.Add...(struct, clientID) of a Create: an error ends
\* the handler.
SendAdd ==
    /\ handler.pc = "E_add"
    /\ LET w == Marshal(entity.kind, entity.rec) IN
       \E out \in ServeAddRecord(getSessionID, w) :
        LET mr == makeRequest(out.http)
            r == IF entity.kind = "web_database" THEN AddIDResult(mr, "database")
                 ELSE IF entity.kind = "web_user" THEN AddIDResult(mr, "shell user")
                 ELSE RecordResult("add", mr)
        IN
        /\ server' = out.server
        /\ obs' = Called(r.err)
        /\ entity' = [entity EXCEPT !.sent = Append(@, [method |-> Resources[entity.kind].add,
                                                       params |-> w])]
        /\ IF r.err # Nil
           THEN Finish(handler.op, TRUE, "Error creating " \o Resources[entity.kind].noun)
           ELSE /\ handler' = [handler EXCEPT !.pc = "E_get", !.domainID = r.id]
                /\ UNCHANGED diag
    /\ UNCHANGED <<sessionID, tvars, fn, provider, tfstate>>

\* err := r.client.Update...(id, clientID, struct) of an Update: an error
\* ends the handler.
SendUpdate ==
    /\ handler.pc = "E_upd"
    /\ LET w == Marshal(entity.kind, entity.rec) IN
       \E out \in ServeUpdateRecord(getSessionID, handler.domainID, w) :
        LET r == RecordResult("update", makeRequest(out.http)) IN
        /\ server' = out.server
        /\ obs' = Called(r.err)
        /\ entity' = [entity EXCEPT !.sent = Append(@, [method |-> Resources[entity.kind].update,
                                                       params |-> w])]
        /\ IF r.err # Nil
           THEN Finish(handler.op, TRUE, "Error updating " \o Resources[entity.kind].noun)
           ELSE /\ handler' = [handler EXCEPT !.pc = "E_get"]
                /\ UNCHANGED diag
    /\ UNCHANGED <<sessionID, tvars, fn, provider, tfstate>>

\* The record is read back; the plan, with the server id of the record if
\* the plan has none, becomes the state.
ReadBack ==
    /\ handler.pc = "E_get"
    /\ \E out \in ServeGetRecord(getSessionID, handler.domainID) :
        LET mr == makeRequest(out.http)
            r == IF entity.kind = "web_database" THEN GetStructResult(mr, "database")
                 ELSE IF entity.kind = "web_user" THEN GetStructResult(mr, "shell user")
                 ELSE RecordResult("get", mr)
        IN
        /\ server' = out.server
        /\ obs' = Called(r.err)
        /\ IF r.err # Nil
           THEN /\ Finish(handler.op, TRUE,
                          (IF entity.state.present THEN "Error reading updated "
                           ELSE "Error reading created ") \o Resources[entity.kind].noun)
                /\ UNCHANGED entity
           ELSE /\ entity' = [entity EXCEPT !.state =
                                 [present |-> TRUE, id |-> handler.domainID,
                                  server_id |-> IF entity.plan.server_id = NullInt
                                                THEN r.domain.server_id
                                                ELSE entity.plan.server_id]]
                /\ Finish(handler.op, FALSE, "")
    /\ UNCHANGED <<sessionID, tvars, fn, provider, tfstate>>

\* Terraform has taken the response of the handler.
EntityDone ==
    /\ handler.pc = "done"
    /\ handler' = NoHandler
    /\ diag' = NoDiag
    /\ obs' = NoObs
    /\ entity' = [entity EXCEPT !.plan = NoEntity.plan, !.rec = ZeroRecord, !.sent = <<>>]
    /\ UNCHANGED <<sessionID, tvars, fn, server, provider, tfstate>>

\* ---- cronTaskResource ----
\* The CronJob of Create: server_id of the plan, else that of the provider
\* if it has one.
cronJob_Create(plan) ==
    [ZeroRecord EXCEPT
        !.active = webDBBoolToYN(plan.active),
        !.server_id = IF plan.server_id # NullInt THEN plan.server_id
                      ELSE IF provider.serverID # 0 THEN provider.serverID ELSE 0]

\* The CronJob of Update: server_id of the plan only.
cronJob_Update(plan) ==
    [ZeroRecord EXCEPT
        !.active = webDBBoolToYN(plan.active),
        !.server_id = IF plan.server_id # NullInt THEN plan.server_id ELSE 0]

cronTask_Create ==
    /\ Ready
    /\ ~entity.state.present
    /\ \E plan \in EntityPlans("cron_task") :
        Built("cron_task.Create", "cron_task", plan,
              IF parseCronSchedule(plan.schedule).err THEN "Invalid Schedule" ELSE "",
              cronJob_Create(plan), "E_add")
    /\ UNCHANGED <<sessionID, tvars, fn, server, provider, tfstate, obs>>

cronTask_Update ==
    /\ Ready
    /\ entity.state.present
    /\ entity.kind = "cron_task"
    /\ \E plan \in EntityPlans("cron_task") :
        Built("cron_task.Update", "cron_task", plan,
              IF parseCronSchedule(plan.schedule).err THEN "Invalid Schedule" ELSE "",
              cronJob_Update(plan), "E_upd")
    /\ UNCHANGED <<sessionID, tvars, fn, server, provider, tfstate, obs>>

\* ---- The parent web domain of a web database or web user ----
\* plan.ParentDomainID of the plans applied.
ParentDomainID == 1

\* A web domain that is on the server before the provider starts; server_id
\* in its record is 3, or none.
ParentDomain ==
    /\ provider.status = "off"
    /\ server.sessions = {}
    /\ server.domains = <<>>
    /\ \E sid \in {0, 3} :
        server' = [server EXCEPT
                      !.domains = <<[ZeroDomain EXCEPT !.server_id = sid,
                                                       !.document_root = BasePath]>>]
    /\ UNCHANGED <<sessionID, tvars, fn, entity, provider, handler, tfstate, diag, obs>>

\* ---- webDatabaseResource.Create ----
\* The Database of Create: server_id of the plan, else that of the parent
\* domain if it was fetched and has one, else that of the provider if it
\* has one.
database_Create(plan, parent) ==
    [ZeroRecord EXCEPT
        !.active = IF plan.active # "null" THEN webDBBoolToYN(plan.active) ELSE "",
        !.server_id = IF plan.server_id # NullInt THEN plan.server_id
                      ELSE IF parent.err = Nil /\ parent.domain.server_id # 0
                           THEN parent.domain.server_id
                      ELSE IF provider.serverID # 0 THEN provider.serverID ELSE 0]

webDatabase_Create ==
    /\ Ready
    /\ ~entity.state.present
    /\ \E plan \in EntityPlans("web_database") :
        IF plan.server_id = NullInt
        THEN Built("web_database.Create", "web_database", plan, "", ZeroRecord, "E_parent")
        ELSE Built("web_database.Create", "web_database", plan, "",
                   database_Create(plan, GetWebDomainResult(makeRequest(NoReply))), "E_add")
    /\ UNCHANGED <<sessionID, tvars, fn, server, provider, tfstate, obs>>

\* parentDomain, err := r.client.GetWebDomain(parent): its error is dropped.
webDatabase_Create_Parent ==
    /\ handler.op = "web_database.Create"
    /\ handler.pc = "E_parent"
    /\ \E out \in ServeGet(getSessionID, ParentDomainID) :
        LET r == GetWebDomainResult(makeRequest(out.http)) IN
        /\ server' = out.server
        /\ obs' = Called(r.err)
        /\ handler' = [handler EXCEPT !.pc = "E_add"]
        /\ entity' = [entity EXCEPT !.rec = database_Create(entity.plan, r)]
    /\ UNCHANGED <<sessionID, tvars, fn, provider, tfstate, diag>>

\* ---- webUserResource.Create ----
\* The ShellUser of Create: server_id of the plan, else that of the parent
\* domain.
shellUser_Create(plan, parentDomain) ==
    [ZeroRecord EXCEPT
        !.active = IF plan.active # "null" THEN webDBBoolToYN(plan.active) ELSE "",
        !.server_id = IF plan.server_id # NullInt THEN plan.server_id
                      ELSE parentDomain.server_id]

webUser_Create ==
    /\ Ready
    /\ ~entity.state.present
    /\ \E plan \in EntityPlans("web_user") :
        Built("web_user.Create", "web_user", plan, "", ZeroRecord, "E_parent")
    /\ UNCHANGED <<sessionID, tvars, fn, server, provider, tfstate, obs>>

\* parentDomain, err := r.client.GetWebDomain(parent): its error ends the
\* handler.
webUser_Create_Parent ==
    /\ handler.op = "web_user.Create"
    /\ handler.pc = "E_parent"
    /\ \E out \in ServeGet(getSessionID, ParentDomainID) :
        LET r == GetWebDomainResult(makeRequest(out.http)) IN
        /\ server' = out.server
        /\ obs' = Called(r.err)
        /\ IF r.err # Nil
           THEN /\ Finish("web_user.Create", TRUE, "Error fetching parent domain")
                /\ UNCHANGED entity
           ELSE /\ handler' = [handler EXCEPT !.pc = "E_add"]
                /\ entity' = [entity EXCEPT !.rec = shellUser_Create(entity.plan, r.domain)]
                /\ UNCHANGED diag
    /\ UNCHANGED <<sessionID, tvars, fn, provider, tfstate>>

\* ---- emailDomainResource ----
\* The MailDomain of Create: server_id of the plan, else that of the
\* provider if it has one; active of the plan, else 'y'.
mailDomain_Create(plan) ==
    [ZeroRecord EXCEPT
        !.server_id = IF plan.server_id # NullInt THEN plan.server_id
                      ELSE IF provider.serverID # 0 THEN provider.serverID ELSE 0,
        !.active = IF plan.active # "null" THEN plan.active ELSE "y"]

\* The MailDomain of Update: server_id and active of the plan only.
mailDomain_Update(plan) ==
    [ZeroRecord EXCEPT
        !.server_id = IF plan.server_id # NullInt THEN plan.server_id ELSE 0,
        !.active = IF plan.active # "null" THEN plan.active ELSE ""]

emailDomain_Create ==
    /\ Ready
    /\ ~entity.state.present
    /\ \E plan \in EntityPlans("email_domain") :
        Built("email_domain.Create", "email_domain", plan, "", mailDomain_Create(plan), "E_add")
    /\ UNCHANGED <<sessionID, tvars, fn, server, provider, tfstate, obs>>

emailDomain_Update ==
    /\ Ready
    /\ entity.state.present
    /\ entity.kind = "email_domain"
    /\ \E plan \in EntityPlans("email_domain") :
        Built("email_domain.Update", "email_domain", plan, "", mailDomain_Update(plan), "E_upd")
    /\ UNCHANGED <<sessionID, tvars, fn, server, provider, tfstate, obs>>

\* ---- emailInboxResource ----
\* The MailUser of Create and of Update: move_junk 'n'; server_id of the
\* plan, else that of the provider if it has one.
mailUser(plan) ==
    [ZeroRecord EXCEPT
        !.move_junk = "n",
        !.server_id = IF plan.server_id # NullInt THEN plan.server_id
                      ELSE IF provider.serverID # 0 THEN provider.serverID ELSE 0]

emailInbox_Create ==
    /\ Ready
    /\ ~entity.state.present
    /\ \E plan \in EntityPlans("email_inbox") :
        Built("email_inbox.Create", "email_inbox", plan, "", mailUser(plan), "E_add")
    /\ UNCHANGED <<sessionID, tvars, fn, server, provider, tfstate, obs>>

emailInbox_Update ==
    /\ Ready
    /\ entity.state.present
    /\ entity.kind = "email_inbox"
    /\ \E plan \in EntityPlans("email_inbox") :
        Built("email_inbox.Update", "email_inbox", plan, "", mailUser(plan), "E_upd")
    /\ UNCHANGED <<sessionID, tvars, fn, server, provider, tfstate, obs>>

\* One provider process creating and updating a resource of another kind.
EntityNext ==
    \/ ParentDomain
    \/ Configure
    \/ cronTask_Create
    \/ cronTask_Update
    \/ webDatabase_Create
    \/ webDatabase_Create_Parent
    \/ webUser_Create
    \/ webUser_Create_Parent
    \/ emailDomain_Create
    \/ emailDomain_Update
    \/ emailInbox_Create
    \/ emailInbox_Update
    \/ SendAdd
    \/ SendUpdate
    \/ ReadBack
    \/ EntityDone

EntitySpec == Init /\ [][EntityNext]_vars

\* ------------------------------------------------------------------------
\* The flexible integer decoder and the state upgraders
\* ------------------------------------------------------------------------
\* The JSON values handed to the decoder: integers, strings of digits and
\* other characters up to MaxDigits long, and every other shape (JFloat is
\* a number with a fractional part).
DecoderInputs ==
    LET JFloat == [t |-> "float", n |-> 0, s |-> <<>>, o |-> ZeroDomain]
        chars == {Digits[i] : i \in 1..10} \cup {"-", "a"}
        strings == UNION {[1..k -> chars] : k \in 0..MaxDigits}
    IN {JNum(n) : n \in (1 - 10^MaxDigits)..(10^MaxDigits - 1)}
           \cup {JStr(str) : str \in strings}
           \cup {JBool(TRUE), JBool(FALSE), JNull, JArr, JObj(ZeroDomain), JFloat}

\* A decoder that accepts native numbers only.
UnmarshalJSON_NumbersOnly(data) ==
    IF data.t \in {"number", "null"} THEN [err |-> FALSE, n |-> data.n]
    ELSE IF data.t = "string" THEN [err |-> TRUE, n |-> 0]
    ELSE [err |-> FALSE, n |-> 0]

\* FlexInt.UnmarshalJSON: the value is tried as an int, then as a string; a
\* value that is neither falls through to the final return nil and leaves
\* the target at its zero value.
UnmarshalJSON(data) ==
    IF data.t \in {"number", "null"} THEN [err |-> FALSE, n |-> data.n]
    ELSE IF data.t = "string"
         THEN IF data.s = <<>> THEN [err |-> FALSE, n |-> 0] ELSE Atoi(data.s)
    ELSE [err |-> FALSE, n |-> 0]

\* A response field of type FlexInt is decoded.
FlexInt_UnmarshalJSON ==
    /\ fn = NoCall
    /\ \E data \in DecoderInputs :
           fn' = [name |-> "UnmarshalJSON", arg |-> data, out |-> UnmarshalJSON(data)]
    /\ UNCHANGED <<cvars, server, provider, handler, tfstate, diag, obs, entity>>

\* A y/n helper that reads every string but "n" as true.
webUserYNToBool_NotN(str) == str # <<"n">>

webUserYNToBool(str) == str = <<"y">> \/ str = <<"Y">>

webDBYNToBool(str) == str = <<"y">> \/ str = <<"Y">>

\* The values a stored string attribute of a version-0 record can hold:
\* absent, a y/n string, another string, or a boolean written by a release
\* whose schema already was boolean.
StoredFlags ==
    {JNull, JStr(<<"y">>), JStr(<<"Y">>), JStr(<<"n">>), JStr(<<>>), JStr(<<"x">>),
     JBool(TRUE), JBool(FALSE)}

\* req.State.Get for an attribute the prior schema declares as a string: a
\* stored boolean either fails to decode or is read as "true"/"false".
StateGet(raw) ==
    CASE raw.t = "null" -> {[err |-> FALSE, null |-> TRUE, s |-> <<>>]}
      [] raw.t = "string" -> {[err |-> FALSE, null |-> FALSE, s |-> raw.s]}
      [] OTHER ->
           {[err |-> TRUE, null |-> TRUE, s |-> <<>>],
            [err |-> FALSE, null |-> FALSE,
             s |-> IF raw.n = 1 THEN <<"t", "r", "u", "e">> ELSE <<"f", "a", "l", "s", "e">>]}

\* The version-0 upgrader of the shell user: active is converted, every
\* other attribute is copied.
webUser_UpgradeState ==
    /\ fn = NoCall
    /\ \E id \in 1..2, active \in StoredFlags :
       \E a \in StateGet(active) :
           fn' = [name |-> "web_user.UpgradeState",
                  arg |-> [id |-> id, active |-> active, remote_access |-> JNull],
                  out |-> IF a.err
                          THEN [err |-> TRUE, id |-> 0, active |-> FALSE, remote_access |-> FALSE]
                          ELSE [err |-> FALSE,
                                id |-> id,
                                active |-> IF ~a.null THEN webUserYNToBool(a.s) ELSE TRUE,
                                remote_access |-> FALSE]]
    /\ UNCHANGED <<cvars, server, provider, handler, tfstate, diag, obs, entity>>

\* The version-0 upgrader of the database: active and remote_access are
\* converted, every other attribute is copied.
webDatabase_UpgradeState ==
    /\ fn = NoCall
    /\ \E id \in 1..2, active \in StoredFlags, remote \in StoredFlags :
       \E a \in StateGet(active), ra \in StateGet(remote) :
           fn' = [name |-> "web_database.UpgradeState",
                  arg |-> [id |-> id, active |-> active, remote_access |-> remote],
                  out |-> IF a.err \/ ra.err
                          THEN [err |-> TRUE, id |-> 0, active |-> FALSE, remote_access |-> FALSE]
                          ELSE [err |-> FALSE,
                                id |-> id,
                                active |-> IF ~a.null THEN webDBYNToBool(a.s) ELSE TRUE,
                                remote_access |-> IF ~ra.null THEN webDBYNToBool(ra.s) ELSE FALSE]]
    /\ UNCHANGED <<cvars, server, provider, handler, tfstate, diag, obs, entity>>

\* Client.makeRequest applied to one HTTP exchange: a network failure, or
\* any of several statuses with a body that parses or not.
Client_makeRequest ==
    /\ fn = NoCall
    /\ \E h \in {Http(FALSE, 0, FALSE, NoBody)}
                  \cup {Http(TRUE, st, TRUE, e) : st \in {200, 201, 204, 302, 404, 500}, e \in Envelopes}
                  \cup {Http(TRUE, st, FALSE, Garbage) : st \in {200, 201, 204, 302, 404, 500}} :
           fn' = [name |-> "makeRequest", arg |-> h, out |-> makeRequest(h)]
    /\ UNCHANGED <<cvars, server, provider, handler, tfstate, diag, obs, entity>>

\* One response being received or decoded, or one stored state being
\* upgraded: each behaviour applies one of the functions to one input.
CodecNext ==
    \/ Client_makeRequest
    \/ FlexInt_UnmarshalJSON
    \/ webUser_UpgradeState
    \/ webDatabase_UpgradeState

CodecSpec == Init /\ [][CodecNext]_vars

\* ------------------------------------------------------------------------
\* Properties of the session client
\* ------------------------------------------------------------------------
\* Caller t is at a statement that writes sessionID / that reads it.
WritesToken(t) == pc[t] \in {"L_store", "O_clear"}

ReadsToken(t) == pc[t] \in {"E_read", "O_chk"}

\* C1: on one shared client, under every interleaving of Login, Logout and
\* entity calls, a caller at a write of sessionID excludes every other
\* caller from being at a read or a write of it.
C1_TokenAccessExclusive ==
    \A t, u \in Threads :
        (t # u /\ WritesToken(t)) => (~WritesToken(u) /\ ~ReadsToken(u))

\* C1 witness: one caller is at its write of sessionID, holding the write
\* lock, while another caller is in the middle of an entity call.
C1_Witness ==
    \E t, u \in Threads :
        t # u /\ WritesToken(t) /\ mu.w = t /\ pc[u] = "E_req"

\* The call of caller t returns in this step.
Returns(t) == pc[t] # "ret" /\ pc'[t] = "ret"

\* The reply of a Login that the code has to accept: delivered, status 200,
\* JSON, code "ok", a string as payload.
GoodLogin(h) ==
    h.net /\ h.status = 200 /\ h.json /\ h.body.code = "ok" /\ h.body.response.t = "string"

\* C2: a new client holds the empty token, and every step that leaves a
\* non-empty token other than the one held before is the return of a Login
\* that succeeded, storing the token of its reply.
C2_TokenOnlyFromLogin ==
    /\ sessionID = EmptyString
    /\ [][(sessionID' # sessionID /\ sessionID' # EmptyString) =>
            \E t \in Threads :
                /\ op[t] = "login" /\ Returns(t) /\ ret'[t] = Nil
                /\ GoodLogin(reply[t])
                /\ sessionID' = reply[t].body.response.s]_vars

\* C2 witness: the client holds a token.
C2_Witness == sessionID # EmptyString

\* Caller t sends a request that is not a login in this step.
SendsRequest(t) == pc[t] \in {"E_req", "O_req"} /\ pc'[t] # pc[t]

\* C3 as claimed: every request other than login carries the token that is
\* current in the client at the moment it is sent.
C3_CarriesCurrentToken ==
    [][\A t \in Threads : SendsRequest(t) => params[t] = sessionID]_vars

\* C3 as amended: every request other than login carries the token that was
\* current when the call read it; it is the token current at the moment of
\* sending unless a Login or Logout wrote the token after that read.
C3_CarriesTokenRead ==
    [][\A t \in Threads : SendsRequest(t) => (params[t] = sessionID \/ stale[t])]_vars

\* C3 witness: a caller is about to send a request with a token that a
\* Login or Logout has replaced since the caller read it.
C3_Witness ==
    \E t \in Threads : pc[t] = "E_req" /\ stale[t] /\ params[t] # sessionID

\* C4 as claimed: whenever Logout returns, the stored token is empty.
C4_LogoutLeavesTokenEmpty ==
    [][\A t \in Threads : (op[t] = "logout" /\ Returns(t)) => sessionID' = EmptyString]_vars

\* The message the server provided, if its reply was received as JSON.
ServerMessage(h) == IF h.net /\ h.json THEN h.body.message ELSE ""

\* C5 as claimed: Login succeeds exactly on a reply with code "ok" and a
\* string payload and then stores that string; in every other case it
\* returns an error that carries the server's message and leaves the token
\* as it was before the call.
C5_LoginOutcome ==
    [][\A t \in Threads : (op[t] = "login" /\ Returns(t)) =>
            IF GoodLogin(reply'[t])
            THEN ret'[t] = Nil /\ sessionID' = reply'[t].body.response.s
            ELSE /\ ret'[t] # Nil
                 /\ ret'[t].msg = ServerMessage(reply'[t])
                 /\ sessionID' = pre[t]]_vars

\* A request that failed in transport, and one that failed at the protocol
\* level.
TransportFailed(h) == ~h.net \/ h.status # 200 \/ ~h.json

ProtocolFailed(h) == ~TransportFailed(h) /\ h.body.code # "ok"

\* C7 as claimed: a call sends at most one request, and a call whose request
\* failed in transport or at the protocol level returned that failure.
C7_OneRequestFailureReturned ==
    \A t \in Threads :
        /\ nreq[t] <= 1
        /\ (pc[t] = "ret" /\ nreq[t] = 1 /\ (TransportFailed(reply[t]) \/ ProtocolFailed(reply[t])))
              => ret[t] # Nil

\* C7 as amended: a call sends at most one request; a transport failure is
\* returned by every call, a protocol failure by every call but Logout,
\* which does not look at the reply's code.
C7_OneRequestNoRetry ==
    \A t \in Threads :
        /\ nreq[t] <= 1
        /\ (pc[t] = "ret" /\ nreq[t] = 1 /\ TransportFailed(reply[t])) => ret[t] # Nil
        /\ (pc[t] = "ret" /\ nreq[t] = 1 /\ ProtocolFailed(reply[t]) /\ op[t] # "logout")
              => ret[t] # Nil

\* C7 witness: an UpdateWebDomain whose one request failed at the protocol
\* level has returned the error.
C7_Witness ==
    \E t \in Threads :
        /\ pc[t] = "ret" /\ op[t] = "sites_web_domain_update" /\ nreq[t] = 1
        /\ ProtocolFailed(reply[t]) /\ ret[t] # Nil

\* ------------------------------------------------------------------------
\* Properties of the provider and its resource handlers
\* ------------------------------------------------------------------------
\* The configured provider holds a token that the server no longer accepts.
SessionExpired == provider.status = "ready" /\ sessionID \notin server.sessions

\* A handler has ended without an error.
OperationSucceeded == handler.pc = "done" /\ diag.op # "none" /\ ~diag.error

\* C6 as claimed: once the server has dropped the session of a configured
\* provider, an entity operation of that provider eventually succeeds,
\* unless the provider process ends first (a new process is configured
\* anew).
C6_ReauthenticatesAfterTimeout ==
    SessionExpired ~> (OperationSucceeded \/ provider.status # "ready")

\* C8 as claimed: a Create that reports an error has created no entity on
\* the remote system, and a Create that reports success has recorded the
\* entity it created in state.
C8_CreateAllOrNothing ==
    (handler.pc = "done" /\ diag.op = "Create") =>
        IF diag.error
        THEN obs.created = 0
        ELSE obs.created # 0 /\ tfstate.present /\ tfstate.id = obs.created

\* C9 as claimed: a handler one of whose remote calls failed reports an
\* error.
C9_RemoteFailureReported ==
    (handler.pc = "done" /\ obs.failed) => diag.error

\* The reply of an Add that echoes the identity id: delivered, status 200,
\* JSON, code "ok", and id as a number or as its decimal string.
EchoesIdentity(x, id) ==
    /\ x.net /\ x.status = 200 /\ x.json /\ x.body.code = "ok"
    /\ x.body.response \in {JNum(id), JStr(Itoa(id))}

Created == handler.pc = "done" /\ diag.op = "Create" /\ ~diag.error

C15_ConflictRefusedBeforeAnyCall ==
    (handler.plan.document_root # NullStr /\ handler.plan.root_subdir # NullStr) =>
        /\ handler.pc = "done"
        /\ diag.op \in {"Create", "Update"}
        /\ diag.error
        /\ diag.summary = "Conflicting Configuration"
        /\ ~obs.called

C15_Witness ==
    /\ handler.plan.document_root # NullStr
    /\ handler.plan.root_subdir # NullStr
    /\ handler.pc = "done"
    /\ diag.op = "Update"
    /\ diag.summary = "Conflicting Configuration"

\* C19: the request a Create or an Update built from a php_version was
\* translated with the catalog of the server the operation is for -- a
\* catalog cached for another server is not used again.
C19_CatalogOfTheSameServer ==
    (handler.pc \in {"C_add", "U_upd"} /\ handler.plan.php_version # NullStr) =>
        /\ provider.php.m = Catalog(handler.serverID)
        /\ (IF handler.pc = "C_add" THEN handler.phpID ELSE handler.domain.server_php_id) =
               phpVersionToID([loaded |-> TRUE, m |-> Catalog(handler.serverID)],
                              handler.plan.php_version).id

\* C20: a handler that has translated a PHP version to an id, or an id to
\* a version, holds a catalog that a discovery call filled.
C20_TranslationOnlyAfterDiscovery ==
    obs.translated => provider.php.loaded

C22_DocumentRootIsCombine ==
    /\ handler.pc = "C_upd" =>
           combineDocumentRoot(handler.domain.document_root, handler.plan.root_subdir)
               = combineDocumentRoot(BasePath, handler.plan.root_subdir)
    /\ ( /\ handler.pc = "U_upd"
         /\ handler.plan.document_root = NullStr
         /\ Exists(handler.domainID)
         /\ SubSeq(server.domains[handler.domainID].document_root, 1, Len(BasePath)) = BasePath
         /\ ValueString(handler.plan.root_subdir) # <<>> \/ ValueString(tfstate.root_subdir) # <<>> )
        => handler.domain.document_root
               = combineDocumentRoot(BasePath, ValueString(handler.plan.root_subdir))

\* ------------------------------------------------------------------------
\* Properties of the other resources
\* ------------------------------------------------------------------------
\* The request carries a server id: the member is there and is not zero.
CarriesServerID(req) == req.params.server_id.present /\ req.params.server_id.v # 0

\* C11: no Add or Update request of a resource goes out with an unset or
\* zero server id -- a handler that cannot resolve the server id from the
\* resource, its parent or the provider ends with an error before it sends
\* anything.
C11_NoRequestWithoutServerID ==
    \A i \in DOMAIN entity.sent : CarriesServerID(entity.sent[i])

\* The server id a request carries (0: none).
SentServerID(req) == IF req.params.server_id.present THEN req.params.server_id.v ELSE 0

\* The server id of the parent web domain on the server (0: none).
ParentServerID ==
    IF Exists(ParentDomainID) THEN server.domains[ParentDomainID].server_id ELSE 0

\* The default resolution chain: the resource, then the parent, then the
\* provider.
ResolvedServerID ==
    IF entity.plan.server_id # NullInt THEN entity.plan.server_id
    ELSE IF ParentServerID # 0 THEN ParentServerID
    ELSE provider.serverID

\* C12: the request that creates a web user or a web database carries the
\* server id of the resource if it is set, else that of the parent web
\* domain if it has one, else the default of the provider (as long as no
\* remote call of the handler failed).
C12_ServerIDResolutionChain ==
    (entity.kind \in {"web_user", "web_database"} /\ ~obs.failed) =>
        \A i \in DOMAIN entity.sent : SentServerID(entity.sent[i]) = ResolvedServerID

\* The provider-level default, where the resource has no server_id.
FallsBackToProvider(req) ==
    entity.plan.server_id = NullInt => SentServerID(req) = provider.serverID

\* C13: the update request of a cron task, an email domain or an email
\* inbox whose plan has no server_id carries the server id of the provider,
\* as the create request does.
C13_UpdateFallsBackToProvider ==
    entity.kind \in {"cron_task", "email_domain", "email_inbox"} =>
        \A i \in DOMAIN entity.sent : FallsBackToProvider(entity.sent[i])

\* C16: a Create of an email domain sends mail_domain_add and then, before
\* it reads the record back, a mail_domain_update with the active value
\* and the server id it resolved.
C16_CreateAddsThenUpdates ==
    (entity.kind = "email_domain" /\ handler.op = "email_domain.Create" /\ handler.pc = "E_get") =>
        /\ Len(entity.sent) = 2
        /\ entity.sent[1].method = "mail_domain_add"
        /\ entity.sent[2].method = "mail_domain_update"
        /\ entity.sent[2].params.active = entity.sent[1].params.active
        /\ entity.sent[2].params.server_id = entity.sent[1].params.server_id

\* C17: every mail_user_add and mail_user_update request carries
\* move_junk 'n', purge_trash_days '0' and purge_junk_days '0'.
C17_MailUserFieldsAlwaysSent ==
    \A i \in DOMAIN entity.sent :
        entity.sent[i].method \in {"mail_user_add", "mail_user_update"} =>
            /\ entity.sent[i].params.move_junk = [present |-> TRUE, v |-> "n"]
            /\ entity.sent[i].params.purge_trash_days = [present |-> TRUE, v |-> "0"]
            /\ entity.sent[i].params.purge_junk_days = [present |-> TRUE, v |-> "0"]

\* C18: every mail_domain_add and mail_domain_update request carries
\* active 'y' or 'n', and 'y' where the plan does not set active.
C18_MailDomainActiveAlwaysSent ==
    \A i \in DOMAIN entity.sent :
        entity.sent[i].method \in {"mail_domain_add", "mail_domain_update"} =>
            /\ entity.sent[i].params.active.present
            /\ entity.sent[i].params.active.v \in {"y", "n"}
            /\ entity.plan.active = "null" => entity.sent[i].params.active.v = "y"

\* ------------------------------------------------------------------------
\* Properties of the decoder and the state upgraders
\* ------------------------------------------------------------------------
\* The decoder has just been applied to a value that is not a native number,
\* a numeric string or the empty string.
DecodedOtherShape ==
    /\ fn.name = "UnmarshalJSON"
    /\ fn.arg.t # "number"
    /\ ~(fn.arg.t = "string" /\ (fn.arg.s = <<>> \/ ~Atoi(fn.arg.s).err))

\* C23: decoding a JSON value that is not a native number, a numeric string
\* or the empty string (true/false, null, an object, an array) returns a
\* decoding error, never success.
C23_OtherShapesAreErrors == DecodedOtherShape => fn.out.err

\* C24: for every integer n >= 0 the JSON number n and the JSON string "n"
\* both decode to n without error, and the empty string decodes to 0.
C24_NumberAndStringAgree ==
    fn.name = "UnmarshalJSON" =>
        /\ \A n \in 0..(10^MaxDigits - 1) :
               fn.arg \in {JNum(n), JStr(Itoa(n))} => fn.out = [err |-> FALSE, n |-> n]
        /\ fn.arg = JStr(<<>>) => fn.out = [err |-> FALSE, n |-> 0]

C24_Witness ==
    /\ fn.name = "UnmarshalJSON"
    /\ fn.arg = JStr(Itoa(10^MaxDigits - 1))
    /\ fn.out.n = 10^MaxDigits - 1

\* A version-0 record whose active attribute is absent or a string has just
\* been upgraded.
UpgradedV0 ==
    /\ fn.name \in {"web_user.UpgradeState", "web_database.UpgradeState"}
    /\ fn.arg.active.t \in {"null", "string"}
    /\ ~fn.out.err

\* C26 as stated: the upgrade yields active = true for "y" and "Y", false
\* for "n", and the default true when the stored value is absent or any
\* other string.
C26_UnrecognizedGetsDefault ==
    UpgradedV0 => (fn.out.active <=> fn.arg.active # JStr(<<"n">>))

\* C26: the upgrade yields active = true for "y" and "Y", false for every
\* other stored string ("n", the empty string, anything unrecognized), and
\* the default true only when the stored value is absent.
C26_OnlyAbsentGetsDefault ==
    UpgradedV0 => (fn.out.active <=> fn.arg.active \in {JNull, JStr(<<"y">>), JStr(<<"Y">>)})

C26_Witness ==
    /\ fn.name = "web_user.UpgradeState"
    /\ fn.arg.active = JStr(<<"x">>)
    /\ ~fn.out.err
    /\ ~fn.out.active

\* C27: the upgrade applied to a record whose active attribute already is a
\* native boolean reports no error and leaves the record as it was.
C27_UpgradeIsIdempotent ==
    ( /\ fn.name \in {"web_user.UpgradeState", "web_database.UpgradeState"}
      /\ fn.arg.active.t = "bool"
      /\ fn.arg.remote_access.t \in {"null", "bool"} )
        => /\ ~fn.out.err
           /\ fn.out.id = fn.arg.id
           /\ fn.out.active <=> fn.arg.active = JBool(TRUE)
           /\ fn.out.remote_access <=> fn.arg.remote_access = JBool(TRUE)

C28_LocalErrorsBeforeAnyCall ==
    ( /\ handler.pc = "done"
      /\ diag.error
      /\ diag.summary \in {"Conflicting Configuration", "Missing Client ID", "Missing Server ID"} )
        => ~obs.called

C30_FailedReadOrDeleteKeepsState ==
    [][ ( /\ handler.pc = "idle"
          /\ handler'.pc = "done"
          /\ diag'.op \in {"Read", "Delete"} )
            => /\ obs'.failed <=> diag'.error
               /\ diag'.error => (tfstate' = tfstate /\ tfstate'.present) ]_vars

C30_Witness ==
    /\ handler.pc = "done"
    /\ diag.op = "Delete"
    /\ diag.error
    /\ obs.failed
    /\ tfstate.present

====
